---- MODULE Spec2Model ----
(***************************************************************************)
(* Model of process_takeout.py: the segment filter                         *)
(* (extract_activity_segment and its helpers), the road snapper            *)
(* (snap_to_road) and the pipeline loop (process_takeout_data).            *)
(*                                                                         *)
(* Python strings that the code inspects character by character (country   *)
(* names, addresses) are sequences of one-character strings.  Optional     *)
(* values (None) are records with a `some` flag.  Python dicts are records *)
(* with a `keys` field holding the keys that are present.                  *)
(***************************************************************************)
EXTENDS Integers, Sequences, FiniteSets, TLC

VARIABLES
    config,         \* the keyword arguments of process_takeout_data
    pc,             \* position of the single control thread
    files_left,     \* files os.walk has still to yield
    entries_left,   \* timeline entries the remaining files may still hold
    remaining,      \* entries of the current file not yet iterated
    entry,          \* the timeline entry of the iteration in progress
    segment_data,   \* result of extract_activity_segment for the entry
    request,        \* the outbound routing request in flight
    response,       \* the routing service's response to that request
    snapped_route,  \* return value of snap_to_road
    features,       \* the run's feature list
    output,         \* content of the output path (absent until written)
    writes,         \* number of times the output path was opened for writing
    requests_sent,  \* number of requests.get calls so far
    routes_started, \* number of "Processing route" lines printed so far
    printed         \* the lines the last step wrote to stdout

vars == <<config, pc, files_left, entries_left, remaining, entry, segment_data,
          request, response, snapped_route, features, output, writes,
          requests_sent, routes_started, printed>>

----------------------------------------------------------------------------
(* Bounds of the model *)

MaxFiles == 2
MaxEntries == 3
MaxWaypoints == 1

----------------------------------------------------------------------------
(* Strings *)

UpperChars == <<"A","B","C","D","E","F","G","H","I","J","K","L","M",
                "N","O","P","Q","R","S","T","U","V","W","X","Y","Z">>
LowerChars == <<"a","b","c","d","e","f","g","h","i","j","k","l","m",
                "n","o","p","q","r","s","t","u","v","w","x","y","z">>

\* str.lower() on one character
LowerChar(c) ==
    IF \E i \in 1..Len(UpperChars) : UpperChars[i] = c
    THEN LowerChars[CHOOSE i \in 1..Len(UpperChars) : UpperChars[i] = c]
    ELSE c

\* str.lower()
lower(s) == [i \in 1..Len(s) |-> LowerChar(s[i])]

\* Python's `sub in s` on strings
Contains(s, sub) ==
    \E i \in 0..(Len(s) - Len(sub)) : SubSeq(s, i + 1, i + Len(sub)) = sub

\* Python's `x in list`
InList(x, list) == \E i \in 1..Len(list) : list[i] = x

----------------------------------------------------------------------------
(* country_map, in the dict's insertion order; "n~" stands for the letter  *)
(* n with tilde of "españa".                                               *)

country_map ==
    << [base_name |-> <<"s","w","e","d","e","n">>,
        variants  |-> << <<"s","v","e","r","i","g","e">>,
                         <<"s","w","e","d","e","n">> >>],
       [base_name |-> <<"u","s","a">>,
        variants  |-> << <<"u","n","i","t","e","d"," ","s","t","a","t","e","s">>,
                         <<"u","s","a">>,
                         <<"u","s">> >>],
       [base_name |-> <<"s","p","a","i","n">>,
        variants  |-> << <<"e","s","p","a","n~","a">>,
                         <<"s","p","a","i","n">>,
                         <<"e","s","p","a","n","y","a">> >>],
       [base_name |-> <<"f","r","a","n","c","e">>,
        variants  |-> << <<"f","r","a","n","c","e">> >>] >>

\* normalize_country_name: first group, in dict order, that lists the name
normalize_country_name(name) ==
    LET n == lower(name)
        hits == {i \in 1..Len(country_map) : InList(n, country_map[i].variants)}
    IN  IF hits = {} THEN n
        ELSE country_map[CHOOSE i \in hits : \A j \in hits : i <= j].base_name

\* country_map.get(key, default)
country_map_get(key, default) ==
    LET hits == {i \in 1..Len(country_map) : country_map[i].base_name = key}
    IN  IF hits = {} THEN default
        ELSE country_map[CHOOSE i \in hits : TRUE].variants

\* the aliases line 43 tests for one entry of exclude_countries
aliases_of(country) ==
    country_map_get(normalize_country_name(country), <<lower(country)>>)

\* filter_by_country without lowercasing the address (C7 depends on it)
filter_by_country_cased(address, exclude_countries) ==
    ~ \E c \in 1..Len(exclude_countries) :
        \E k \in 1..Len(aliases_of(exclude_countries[c])) :
            Contains(address, aliases_of(exclude_countries[c])[k])

\* filter_by_country: FALSE when the address names an excluded country
filter_by_country(address, exclude_countries) ==
    LET a == lower(address)
    IN  ~ \E c \in 1..Len(exclude_countries) :
            \E k \in 1..Len(aliases_of(exclude_countries[c])) :
                Contains(a, aliases_of(exclude_countries[c])[k])

----------------------------------------------------------------------------
(* Optional values and Python truthiness *)

None == [some |-> FALSE]
Some(x) == [some |-> TRUE, v |-> x]

\* truthiness of an optional list: None and [] are both falsy
TruthyList(opt) == opt.some /\ Len(opt.v) > 0

----------------------------------------------------------------------------
(* Timestamps.  A timestamp string is [form, sec, usec]: form "frac" is     *)
(* "...:SS.ffffffZ", form "whole" is "...:SSZ" (usec = 0), form "bad"       *)
(* matches neither pattern.  A datetime is a number of microseconds.        *)

MicrosPerSecond == 1000000

\* datetime.strptime(date_str, '%Y-%m-%dT%H:%M:%S.%fZ')
strptime_frac(date_str) ==
    IF date_str.form = "frac"
    THEN [ok |-> TRUE, v |-> date_str.sec * MicrosPerSecond + date_str.usec]
    ELSE [ok |-> FALSE, v |-> 0]

\* datetime.strptime(date_str, '%Y-%m-%dT%H:%M:%SZ')
strptime_whole(date_str) ==
    IF date_str.form = "whole"
    THEN [ok |-> TRUE, v |-> date_str.sec * MicrosPerSecond]
    ELSE [ok |-> FALSE, v |-> 0]

\* parse_date: ok = FALSE stands for the ValueError of the second strptime
parse_date(date_str) ==
    IF strptime_frac(date_str).ok
    THEN strptime_frac(date_str)
    ELSE strptime_whole(date_str)

----------------------------------------------------------------------------
(* Geofence.  Decimal degrees are whole numbers in the model: every E7     *)
(* coordinate drawn is a multiple of 10^7.  geopy's geodesic is modelled   *)
(* as the planar distance with KmPerDegree km to the degree, rounded down. *)

E7 == 10000000
KmPerDegree == 111

Abs(x) == IF x < 0 THEN -x ELSE x

\* geodesic(p, q).km
geodesic_km(p, q) ==
    LET a == KmPerDegree * Abs(p[1] - q[1])
        b == KmPerDegree * Abs(p[2] - q[2])
    IN  IF a = 0 THEN b
        ELSE IF b = 0 THEN a
        ELSE CHOOSE r \in (IF a < b THEN b ELSE a)..(a + b) :
                r * r <= a * a + b * b /\ (r + 1) * (r + 1) > a * a + b * b

is_within_radius(lat, lon, center, radius_km) ==
    geodesic_km(<<lat, lon>>, center) <= radius_km

----------------------------------------------------------------------------
(* extract_activity_segment *)

ReturnNone(lines) == [kind |-> "None", data |-> None, printed |-> lines]
Raise(exc) == [kind |-> exc, data |-> None, printed |-> <<>>]
ReturnData(d) == [kind |-> "data", data |-> Some(d), printed |-> <<>>]

\* line 52: the activity-type check
activity_rejects(activity_type, activity_filter) ==
    TruthyList(activity_filter) /\ ~InList(activity_type, activity_filter.v)

\* the date-range check with inclusive comparisons (C8 depends on strictness)
date_rejects_inclusive(start_time, end_time, from_date, to_date) ==
    \/ (from_date.some /\ start_time <= from_date.v)
    \/ (to_date.some /\ end_time >= to_date.v)

\* line 58: the date-range check
date_rejects(start_time, end_time, from_date, to_date) ==
    \/ (from_date.some /\ start_time < from_date.v)
    \/ (to_date.some /\ end_time > to_date.v)

\* stop.get('address', '')
stop_address(stop) == IF "address" \in stop.keys THEN stop.address ELSE <<>>

\* lines 63-66: indexes of the stops that the country check rejects on
excluded_stops(transit_path, exclude_countries) ==
    IF "transitStops" \in transit_path.keys /\ TruthyList(exclude_countries)
    THEN {i \in 1..Len(transit_path.transitStops) :
            /\ stop_address(transit_path.transitStops[i]) # <<>>
            /\ ~filter_by_country(stop_address(transit_path.transitStops[i]),
                                  exclude_countries.v)}
    ELSE {}

\* line 78: the waypoints in decimal degrees, in source order
waypoint_list_of(waypoints) ==
    [i \in 1..Len(waypoints) |->
        <<waypoints[i].latE7 \div E7, waypoints[i].lngE7 \div E7>>]

\* the geofence check demanding every point inside (C9 depends on `any`)
geofence_rejects_unless_all(points_to_check, geofence) ==
    /\ geofence.some
    /\ \E i \in 1..Len(points_to_check) :
            ~is_within_radius(points_to_check[i][1], points_to_check[i][2],
                              geofence.v.center, geofence.v.radius_km)

\* lines 81-83: the geofence check
geofence_rejects(points_to_check, geofence) ==
    /\ geofence.some
    /\ ~ \E i \in 1..Len(points_to_check) :
            is_within_radius(points_to_check[i][1], points_to_check[i][2],
                             geofence.v.center, geofence.v.radius_km)

\* lines 70-93, after the country check
extract_points(activity_segment, activity_type, geofence) ==
    IF ~ {"startLocation", "endLocation"} \subseteq activity_segment.keys
    THEN Raise("KeyError")
    ELSE
    LET start_lat == activity_segment.startLocation.latitudeE7 \div E7
        start_lon == activity_segment.startLocation.longitudeE7 \div E7
        end_lat == activity_segment.endLocation.latitudeE7 \div E7
        end_lon == activity_segment.endLocation.longitudeE7 \div E7
        waypoints == IF "waypointPath" \in activity_segment.keys
                     THEN activity_segment.waypoints ELSE <<>>
        waypoint_list == waypoint_list_of(waypoints)
        points_to_check ==
            << <<start_lat, start_lon>>, <<end_lat, end_lon>> >> \o waypoint_list
    IN  IF geofence_rejects(points_to_check, geofence)
        THEN ReturnNone(<<>>)
        ELSE ReturnData([activity_type |-> activity_type,
                         start_lat |-> start_lat, start_lon |-> start_lon,
                         end_lat |-> end_lat, end_lon |-> end_lon,
                         waypoints |-> waypoint_list])

\* lines 61-68, then the rest
check_country(activity_segment, activity_type, geofence, exclude_countries) ==
    LET transit_path ==
            IF "transitPath" \in activity_segment.keys
            THEN activity_segment.transitPath
            ELSE [keys |-> {}, transitStops |-> <<>>]
        bad == excluded_stops(transit_path, exclude_countries)
    IN  IF bad # {}
        THEN LET first == CHOOSE i \in bad : \A j \in bad : i <= j
             IN  ReturnNone(<< [msg |-> "Excluding segment with address",
                                arg |-> stop_address(transit_path.transitStops[first])] >>)
        ELSE extract_points(activity_segment, activity_type, geofence)

\* lines 55-59, then the rest
check_dates(activity_segment, activity_type, geofence, from_date, to_date, exclude_countries) ==
    IF "duration" \notin activity_segment.keys
    THEN Raise("KeyError")
    ELSE
    LET start_time == parse_date(activity_segment.duration.startTimestamp)
        end_time == parse_date(activity_segment.duration.endTimestamp)
    IN  IF ~start_time.ok \/ ~end_time.ok
        THEN Raise("ValueError")
        ELSE IF date_rejects(start_time.v, end_time.v, from_date, to_date)
        THEN ReturnNone(<<>>)
        ELSE check_country(activity_segment, activity_type, geofence,
                           exclude_countries)

\* the filter parsing the timestamps before the activity-type check (C10
\* depends on the order)
extract_activity_segment_dates_first(activity_segment, geofence, activity_filter, from_date, to_date, exclude_countries) ==
    LET activity_type == IF "activityType" \in activity_segment.keys
                         THEN activity_segment.activityType ELSE "UNKNOWN"
        parsed == check_dates(activity_segment, activity_type, geofence,
                              from_date, to_date, exclude_countries)
    IN  IF parsed.kind \in {"KeyError", "ValueError"}
        THEN parsed
        ELSE IF activity_rejects(activity_type, activity_filter)
        THEN ReturnNone(<<>>)
        ELSE parsed

extract_activity_segment(activity_segment, geofence, activity_filter, from_date, to_date, exclude_countries) ==
    LET activity_type == IF "activityType" \in activity_segment.keys
                         THEN activity_segment.activityType ELSE "UNKNOWN"
    IN  IF activity_rejects(activity_type, activity_filter)
        THEN ReturnNone(<<>>)
        ELSE check_dates(activity_segment, activity_type, geofence,
                         from_date, to_date, exclude_countries)

----------------------------------------------------------------------------
(* snap_to_road.  The URL is kept in three parts; its coordinate list is a *)
(* sequence of tokens: numbers as formatted by the f-string, "," and ";".  *)

OSRM_API_URL == "http://router.project-osrm.org/route/v1/driving/"

Num(x) == [k |-> "num", v |-> x]
Sep(c) == [k |-> c, v |-> 0]

\* f"{lon},{lat}"
FormatPair(lon, lat) == <<Num(lon), Sep(","), Num(lat)>>

\* sep.join(parts)
RECURSIVE Join(_, _)
Join(parts, sep) ==
    IF Len(parts) = 0 THEN <<>>
    ELSE IF Len(parts) = 1 THEN parts[1]
    ELSE parts[1] \o <<sep>> \o Join(Tail(parts), sep)

\* line 97
waypoints_str_of(waypoints) ==
    Join([i \in 1..Len(waypoints) |-> FormatPair(waypoints[i][2], waypoints[i][1])],
         Sep(";"))

\* line 98
snap_url(start_lat, start_lon, waypoints, end_lat, end_lon) ==
    [base   |-> OSRM_API_URL,
     coords |-> FormatPair(start_lon, start_lat) \o <<Sep(";")>>
                \o waypoints_str_of(waypoints) \o <<Sep(";")>>
                \o FormatPair(end_lon, end_lat),
     query  |-> "overview=full&geometries=geojson"]

HttpOk == 200

\* snap_to_road without the status check (C1 depends on it)
snap_result_any(resp) == Some(resp.json)

\* lines 101-105: the value snap_to_road returns for a response
snap_result(resp) ==
    IF resp.status_code = HttpOk THEN Some(resp.json) ELSE None

\* line 104
snap_printed(resp) ==
    IF resp.status_code = HttpOk THEN <<>>
    ELSE << [msg |-> "Failed to snap to road", arg |-> resp.status_code] >>

\* line 143: `snapped_route and 'routes' in snapped_route`
has_routes(route) ==
    route.some /\ route.v.keys # {} /\ "routes" \in route.v.keys

\* the last candidate route instead of the first (C4 depends on it)
last_route_coordinates(route) ==
    route.v.routes[Len(route.v.routes)].geometry.coordinates

\* line 144: routes[0]['geometry']['coordinates']
first_route_coordinates(route) == route.v.routes[1].geometry.coordinates

\* lines 145-152
make_feature(coordinates, data, cfg) ==
    [geometry   |-> [type |-> "LineString", coordinates |-> coordinates],
     properties |-> [activityType |-> data.activity_type,
                     stroke_width |-> cfg.stroke_width,
                     stroke_color |-> cfg.stroke_color]]

\* line 158
FeatureCollection(fs) == [type |-> "FeatureCollection", features |-> fs]

----------------------------------------------------------------------------
(* Inputs: the values a run may read from its arguments, from the files    *)
(* and from the routing service.                                           *)

Whole(sec) == [form |-> "whole", sec |-> sec, usec |-> 0]
Frac(sec, usec) == [form |-> "frac", sec |-> sec, usec |-> usec]
BadTimestamp == [form |-> "bad", sec |-> 0, usec |-> 0]

Datetime(sec) == sec * MicrosPerSecond

Loc(lat, lon) == [latitudeE7 |-> lat * E7, longitudeE7 |-> lon * E7]
Wp(lat, lon) == [latE7 |-> lat * E7, lngE7 |-> lon * E7]

Stop(address) == [keys |-> {"address"}, address |-> address]
StopNoAddress == [keys |-> {}, address |-> <<>>]

AddrSverige == <<"K","i","r","u","n","a",","," ","S","V","E","R","I","G","E">>
AddrNorway == <<"O","s","l","o",","," ","N","o","r","w","a","y">>
AddrCampus == <<"C","a","m","p","u","s">>

Sweden == <<"S","w","e","d","e","n">>
Sverige == <<"s","v","e","r","i","g","e">>
USA == <<"U","S","A">>
Norway == <<"N","o","r","w","a","y">>

\* sequences over S of length at most n
SeqsUpTo(S, n) == UNION {[1..k -> S] : k \in 0..n}

\* a segment dict; absent keys are left out of `keys`
MkSegment(typ, dur, transit, loc) ==
    [keys |-> (IF typ.some THEN {"activityType"} ELSE {})
              \cup (IF dur.some THEN {"duration"} ELSE {})
              \cup (IF transit.some THEN {"transitPath"} ELSE {})
              \cup (IF loc.start.some THEN {"startLocation"} ELSE {})
              \cup (IF loc.waypoints.some THEN {"waypointPath"} ELSE {})
              \cup {"endLocation"},
     activityType  |-> IF typ.some THEN typ.v ELSE "",
     duration      |-> IF dur.some THEN dur.v
                       ELSE [startTimestamp |-> BadTimestamp,
                             endTimestamp |-> BadTimestamp],
     transitPath   |-> IF transit.some THEN transit.v
                       ELSE [keys |-> {}, transitStops |-> <<>>],
     startLocation |-> IF loc.start.some THEN loc.start.v ELSE Loc(0, 0),
     endLocation   |-> loc.end,
     waypoints     |-> IF loc.waypoints.some THEN loc.waypoints.v ELSE <<>>]

Types == {None, Some("IN_PASSENGER_VEHICLE"), Some("WALKING")}
TypeFilters == {None, Some(<<>>), Some(<<"IN_PASSENGER_VEHICLE">>),
                Some(<<"WALKING", "IN_PASSENGER_VEHICLE">>)}

Dur(s, e) == Some([startTimestamp |-> s, endTimestamp |-> e])

\* (duration, from_date, to_date): a few cases, and all boundary cases
DatesFew ==
    { [dur |-> Dur(Whole(1), Frac(2, 0)), from_date |-> None, to_date |-> None],
      [dur |-> Dur(Whole(0), Whole(2)), from_date |-> Some(Datetime(1)), to_date |-> None],
      [dur |-> Dur(Whole(1), BadTimestamp), from_date |-> None, to_date |-> None],
      [dur |-> None, from_date |-> None, to_date |-> None] }
DatesAll ==
    { [dur |-> Dur(s, e), from_date |-> f, to_date |-> t] :
        s \in {BadTimestamp, Whole(0), Whole(1), Frac(1, 5)},
        e \in {BadTimestamp, Whole(1), Whole(2), Frac(2, 5)},
        f \in {None, Some(Datetime(1))},
        t \in {None, Some(Datetime(2))} }

Transit(stops) == Some([keys |-> {"transitStops"}, transitStops |-> stops])

\* (transitPath, exclude_countries)
CountriesFew ==
    { [transit |-> None, exclude_countries |-> None],
      [transit |-> Transit(<<Stop(AddrSverige)>>), exclude_countries |-> Some(<<Sweden>>)] }
CountriesAll ==
    { [transit |-> tp, exclude_countries |-> ex] :
        tp \in {None, Some([keys |-> {}, transitStops |-> <<>>])}
               \cup {Transit(st) :
                        st \in SeqsUpTo({StopNoAddress, Stop(<<>>), Stop(AddrSverige),
                                         Stop(AddrNorway), Stop(AddrCampus)}, 2)},
        ex \in {None, Some(<<>>), Some(<<Sweden>>), Some(<<Sverige>>),
                Some(<<USA>>), Some(<<Norway>>), Some(<<Norway, USA>>)} }

Fence(lat, lon, radius_km) == Some([center |-> <<lat, lon>>, radius_km |-> radius_km])

\* (locations and waypoints, geofence)
GeoFew ==
    { [loc |-> [start |-> Some(Loc(0, 1)), end |-> Loc(5, 6), waypoints |-> None],
       geofence |-> g] : g \in {None, Fence(0, 1, 10)} }
    \cup
    { [loc |-> [start |-> Some(Loc(5, 5)), end |-> Loc(6, 6), waypoints |-> None],
       geofence |-> Fence(0, 0, 10)],
      [loc |-> [start |-> None, end |-> Loc(6, 6), waypoints |-> None],
       geofence |-> None] }
GeoAll ==
    { [loc |-> [start |-> Some(s), end |-> e, waypoints |-> w], geofence |-> g] :
        s \in {Loc(0, 0), Loc(0, 1), Loc(5, 5)},
        e \in {Loc(1, 0), Loc(5, 5), Loc(6, 6)},
        w \in {None} \cup {Some(ws) : ws \in SeqsUpTo({Wp(0, 0), Wp(6, 7)}, MaxWaypoints)},
        g \in {None, Fence(0, 0, 10), Fence(0, 0, KmPerDegree)} }

MkConfig(af, d, c, g) ==
    [activity_filter |-> af, from_date |-> d.from_date, to_date |-> d.to_date,
     exclude_countries |-> c.exclude_countries, geofence |-> g.geofence,
     stroke_width |-> "2.0", stroke_color |-> "#FF0000"]

\* the arguments and timeline entries of whole runs
NoFilters == MkConfig(None, [from_date |-> None, to_date |-> None],
                      [exclude_countries |-> None], [geofence |-> None])
AllFilters == MkConfig(Some(<<"IN_PASSENGER_VEHICLE">>),
                       [from_date |-> Some(Datetime(1)), to_date |-> None],
                       [exclude_countries |-> Some(<<Sweden>>)],
                       [geofence |-> Fence(0, 1, 10)])
RunConfigs == {NoFilters, AllFilters}

GoodDur == Dur(Whole(1), Frac(2, 0))
RunLoc(w) == [start |-> Some(Loc(0, 1)), end |-> Loc(5, 6), waypoints |-> w]

RunSegments ==
    {MkSegment(ty, GoodDur, None, RunLoc(w)) :
        ty \in Types,
        w \in {None} \cup {Some(ws) : ws \in SeqsUpTo({Wp(2, 3)}, MaxWaypoints)}}
    \cup
    {MkSegment(Some("IN_PASSENGER_VEHICLE"), d.dur, None, RunLoc(None)) : d \in DatesFew}
    \cup
    { MkSegment(Some("IN_PASSENGER_VEHICLE"), GoodDur, Transit(<<Stop(AddrSverige)>>),
                RunLoc(None)),
      MkSegment(Some("WALKING"), Dur(BadTimestamp, Whole(2)),
                Transit(<<Stop(AddrSverige)>>), RunLoc(None)),
      MkSegment(Some("IN_PASSENGER_VEHICLE"), GoodDur, None,
                [start |-> None, end |-> Loc(5, 6), waypoints |-> None]),
      MkSegment(Some("IN_PASSENGER_VEHICLE"), GoodDur, None,
                [start |-> Some(Loc(5, 5)), end |-> Loc(6, 6), waypoints |-> None]) }

NoSegment == MkSegment(None, None, None, [start |-> None, end |-> Loc(0, 0), waypoints |-> None])

\* a timeline entry: an activity segment, or another kind of timeline object
SegmentEntry(seg) == [keys |-> {"activitySegment"}, activitySegment |-> seg]
OtherEntry == [keys |-> {"placeVisit"}, activitySegment |-> NoSegment]

RunEntries == {SegmentEntry(seg) : seg \in RunSegments} \cup {OtherEntry}

Route(coordinates) == [geometry |-> [coordinates |-> coordinates]]
RouteA == Route(<< <<11, 59>>, <<12, 60>> >>)
RouteB == Route(<< <<5, 5>> >>)

Json(keys, routes) == [keys |-> keys, routes |-> routes]

HttpError == 500

\* what the routing service may answer
Responses ==
    { [status_code |-> HttpError, json |-> Json({}, <<>>)],
      [status_code |-> HttpError, json |-> Json({"code", "routes"}, <<RouteA>>)],
      [status_code |-> HttpOk, json |-> Json({}, <<>>)],
      [status_code |-> HttpOk, json |-> Json({"code"}, <<>>)],
      [status_code |-> HttpOk, json |-> Json({"code", "routes"}, <<>>)],
      [status_code |-> HttpOk, json |-> Json({"code", "routes"}, <<RouteA, RouteB>>)],
      [status_code |-> HttpOk, json |-> Json({"code", "routes"}, <<RouteB>>)] }

----------------------------------------------------------------------------
(* process_takeout_data.  Files and timeline entries are drawn when the    *)
(* run reads them: files_left files remain to be walked, holding at most   *)
(* entries_left timeline entries between them.                             *)

Init ==
    /\ config \in RunConfigs
    /\ pc = "walk"
    /\ files_left \in 0..MaxFiles
    /\ entries_left = MaxEntries
    /\ remaining = 0
    /\ entry = None
    /\ segment_data = None
    /\ request = None
    /\ response = None
    /\ snapped_route = None
    /\ features = <<>>
    /\ output = None
    /\ writes = 0
    /\ requests_sent = 0
    /\ routes_started = 0
    /\ printed = <<>>

\* an uncaught exception leaves process_takeout_data
Abort ==
    /\ pc' = "aborted"
    /\ printed' = <<>>
    /\ UNCHANGED <<config, files_left, entries_left, remaining, entry, segment_data,
                   request, response, snapped_route, features, output, writes,
                   requests_sent, routes_started>>

\* control returns to the head of the loop over the entries (line 123)
EndIteration ==
    /\ pc' = "entries"
    /\ UNCHANGED <<config, files_left, entries_left, remaining, entry, request,
                   response, snapped_route, output, writes, requests_sent,
                   routes_started>>

\* line 115: a file without the .json suffix is passed over
SkipFile ==
    /\ pc = "walk" /\ files_left > 0
    /\ files_left' = files_left - 1
    /\ printed' = <<>>
    /\ UNCHANGED <<config, pc, entries_left, remaining, entry, segment_data, request,
                   response, snapped_route, features, output, writes, requests_sent,
                   routes_started>>

\* lines 120-123: open() or json.load() raises, or 'timelineObjects' is missing
ReadFileFails ==
    /\ pc = "walk" /\ files_left > 0
    /\ Abort

\* lines 115-123: a .json file is parsed; it holds n timeline entries
ReadFile ==
    /\ pc = "walk" /\ files_left > 0
    /\ \E n \in 0..entries_left :
        /\ remaining' = n
        /\ entries_left' = entries_left - n
    /\ files_left' = files_left - 1
    /\ pc' = "entries"
    /\ printed' = << [msg |-> "Processing file", arg |-> 0] >>
    /\ UNCHANGED <<config, entry, segment_data, request, response, snapped_route,
                   features, output, writes, requests_sent, routes_started>>

\* line 123: the entries of the file are exhausted
EndFile ==
    /\ pc = "entries" /\ remaining = 0
    /\ pc' = "walk"
    /\ printed' = <<>>
    /\ UNCHANGED <<config, files_left, entries_left, remaining, entry, segment_data,
                   request, response, snapped_route, features, output, writes,
                   requests_sent, routes_started>>

\* lines 123-124: the next entry of the file
NextEntry ==
    /\ pc = "entries" /\ remaining > 0
    /\ \E e \in RunEntries :
        /\ entry' = Some(e)
        /\ pc' = IF "activitySegment" \in e.keys THEN "filter" ELSE "entries"
    /\ remaining' = remaining - 1
    /\ printed' = <<>>
    /\ UNCHANGED <<config, files_left, entries_left, segment_data, request, response,
                   snapped_route, features, output, writes, requests_sent,
                   routes_started>>

\* lines 126-135
FilterEntry ==
    /\ pc = "filter"
    /\ LET r == extract_activity_segment(entry.v.activitySegment, config.geofence,
                    config.activity_filter, config.from_date, config.to_date,
                    config.exclude_countries)
       IN  CASE r.kind = "data" ->
                    /\ segment_data' = r.data
                    /\ printed' = << [msg |-> "Processing route", arg |-> 0] >>
                    /\ routes_started' = routes_started + 1
                    /\ pc' = "snap"
                    /\ UNCHANGED <<config, files_left, entries_left, remaining, entry,
                                   request, response, snapped_route, features, output,
                                   writes, requests_sent>>
             [] r.kind = "None" ->
                    /\ printed' = r.printed
                    /\ features' = features
                    /\ segment_data' = None
                    /\ EndIteration
             [] OTHER -> Abort

\* snap_to_road issuing its request twice (C5 depends on it)
SendRequestTwice ==
    /\ pc = "snap"
    /\ request' = Some(snap_url(segment_data.v.start_lat, segment_data.v.start_lon,
                                segment_data.v.waypoints,
                                segment_data.v.end_lat, segment_data.v.end_lon))
    /\ requests_sent' = requests_sent + 2
    /\ pc' = "await"
    /\ printed' = <<>>
    /\ UNCHANGED <<config, files_left, entries_left, remaining, entry, segment_data,
                   response, snapped_route, features, output, writes, routes_started>>

\* lines 97-100: the request leaves
SendRequest ==
    /\ pc = "snap"
    /\ request' = Some(snap_url(segment_data.v.start_lat, segment_data.v.start_lon,
                                segment_data.v.waypoints,
                                segment_data.v.end_lat, segment_data.v.end_lon))
    /\ requests_sent' = requests_sent + 1
    /\ pc' = "await"
    /\ printed' = <<>>
    /\ UNCHANGED <<config, files_left, entries_left, remaining, entry, segment_data,
                   response, snapped_route, features, output, writes, routes_started>>

\* lines 100-105: the response arrives and snap_to_road returns
ReceiveResponse ==
    /\ pc = "await"
    /\ \E resp \in Responses :
        /\ response' = Some(resp)
        /\ snapped_route' = snap_result(resp)
        /\ printed' = snap_printed(resp)
    /\ request' = None
    /\ pc' = "accumulate"
    /\ UNCHANGED <<config, files_left, entries_left, remaining, entry, segment_data,
                   features, output, writes, requests_sent, routes_started>>

\* lines 143-156
Accumulate ==
    /\ pc = "accumulate"
    /\ IF has_routes(snapped_route)
       THEN IF Len(snapped_route.v.routes) = 0
            THEN Abort
            ELSE /\ features' = Append(features,
                        make_feature(first_route_coordinates(snapped_route),
                                     segment_data.v, config))
                 /\ printed' = << [msg |-> "Successfully processed route", arg |-> 0] >>
                 /\ segment_data' = segment_data
                 /\ EndIteration
       ELSE /\ printed' = << [msg |-> "Failed to snap route", arg |-> 0] >>
            /\ features' = features
            /\ segment_data' = segment_data
            /\ EndIteration

\* line 113: os.walk is exhausted
EndWalk ==
    /\ pc = "walk" /\ files_left = 0
    /\ pc' = "write"
    /\ printed' = <<>>
    /\ UNCHANGED <<config, files_left, entries_left, remaining, entry, segment_data,
                   request, response, snapped_route, features, output, writes,
                   requests_sent, routes_started>>

\* the output written inside the loop over the files (C3 depends on it)
WriteOutputInLoop ==
    /\ pc \in {"walk", "write"}
    /\ output' = Some(FeatureCollection(features))
    /\ writes' = writes + 1
    /\ pc' = IF pc = "write" THEN "done" ELSE pc
    /\ printed' = << [msg |-> "Filtered routes with road snapping saved", arg |-> 0] >>
    /\ UNCHANGED <<config, files_left, entries_left, remaining, entry, segment_data,
                   request, response, snapped_route, features, requests_sent,
                   routes_started>>

\* lines 158-161
WriteOutput ==
    /\ pc = "write"
    /\ output' = Some(FeatureCollection(features))
    /\ writes' = writes + 1
    /\ pc' = "done"
    /\ printed' = << [msg |-> "Filtered routes with road snapping saved", arg |-> 0] >>
    /\ UNCHANGED <<config, files_left, entries_left, remaining, entry, segment_data,
                   request, response, snapped_route, features, requests_sent,
                   routes_started>>

Next ==
    \/ SkipFile \/ ReadFileFails \/ ReadFile \/ EndFile \/ NextEntry \/ FilterEntry
    \/ SendRequest \/ ReceiveResponse \/ Accumulate \/ EndWalk \/ WriteOutput

Spec == Init /\ [][Next]_vars

----------------------------------------------------------------------------
(* extract_activity_segment on its own: one call on every case of one      *)
(* check combined with a few cases of the others.  The state is the one    *)
(* process_takeout_data is in when it has read the last entry of its last  *)
(* file.                                                                   *)

FilterCall(ty, af, d, c, g) ==
    /\ config = MkConfig(af, d, c, g)
    /\ entry = Some(SegmentEntry(MkSegment(ty, d.dur, c.transit, g.loc)))
    /\ pc = "filter"
    /\ files_left = 0
    /\ entries_left = 0
    /\ remaining = 0
    /\ segment_data = None
    /\ request = None
    /\ response = None
    /\ snapped_route = None
    /\ features = <<>>
    /\ output = None
    /\ writes = 0
    /\ requests_sent = 0
    /\ routes_started = 0
    /\ printed = <<>>

InitFilter ==
    \/ \E ty \in Types, af \in TypeFilters, d \in DatesAll, c \in CountriesFew,
          g \in GeoFew : FilterCall(ty, af, d, c, g)
    \/ \E ty \in Types, af \in {None, Some(<<"WALKING">>)}, d \in DatesFew,
          c \in CountriesAll, g \in GeoFew : FilterCall(ty, af, d, c, g)
    \/ \E ty \in Types, af \in {None, Some(<<"WALKING">>)}, d \in DatesFew,
          c \in CountriesFew, g \in GeoAll : FilterCall(ty, af, d, c, g)

FilterSpec == InitFilter /\ [][FilterEntry]_vars

----------------------------------------------------------------------------
(* What the specification expects of a segment, stated on the segment and  *)
(* the arguments themselves.                                               *)

Seg == entry.v.activitySegment

ExpType(seg) == IF "activityType" \in seg.keys THEN seg.activityType ELSE "UNKNOWN"

ExpTypePasses(seg, cfg) ==
    \/ ~cfg.activity_filter.some
    \/ cfg.activity_filter.v = <<>>
    \/ \E i \in 1..Len(cfg.activity_filter.v) : cfg.activity_filter.v[i] = ExpType(seg)

ExpMalformed(seg) ==
    /\ "duration" \in seg.keys
    /\ "bad" \in {seg.duration.startTimestamp.form, seg.duration.endTimestamp.form}

ExpDatesParse(seg) == "duration" \in seg.keys /\ ~ExpMalformed(seg)

ExpMicros(ts) == ts.sec * MicrosPerSecond + ts.usec

ExpDateRejects(seg, cfg) ==
    \/ cfg.from_date.some /\ ExpMicros(seg.duration.startTimestamp) < cfg.from_date.v
    \/ cfg.to_date.some /\ ExpMicros(seg.duration.endTimestamp) > cfg.to_date.v

\* the aliases of the group that lists the name, else the lowercased name
ExpAliases(country) ==
    LET groups == {g \in 1..Len(country_map) :
                     \E k \in 1..Len(country_map[g].variants) :
                        country_map[g].variants[k] = lower(country)}
    IN  IF groups = {} THEN {lower(country)}
        ELSE UNION { {country_map[g].variants[k] : k \in 1..Len(country_map[g].variants)} :
                     g \in groups }

ExpStopMatches(stop, cfg) ==
    /\ "address" \in stop.keys
    /\ stop.address # <<>>
    /\ \E c \in 1..Len(cfg.exclude_countries.v) :
         \E a \in ExpAliases(cfg.exclude_countries.v[c]) :
            Contains(lower(stop.address), a)

ExpMatchingStops(seg, cfg) ==
    IF /\ cfg.exclude_countries.some
       /\ "transitPath" \in seg.keys
       /\ "transitStops" \in seg.transitPath.keys
    THEN {i \in 1..Len(seg.transitPath.transitStops) :
            ExpStopMatches(seg.transitPath.transitStops[i], cfg)}
    ELSE {}

ExpCountryRejects(seg, cfg) == ExpMatchingStops(seg, cfg) # {}

ExpPoints(seg) ==
    { <<seg.startLocation.latitudeE7 \div E7, seg.startLocation.longitudeE7 \div E7>>,
      <<seg.endLocation.latitudeE7 \div E7, seg.endLocation.longitudeE7 \div E7>> }
    \cup (IF "waypointPath" \in seg.keys
          THEN { <<seg.waypoints[i].latE7 \div E7, seg.waypoints[i].lngE7 \div E7>> :
                   i \in 1..Len(seg.waypoints) }
          ELSE {})

ExpInside(seg, cfg) ==
    {p \in ExpPoints(seg) : geodesic_km(p, cfg.geofence.v.center) <= cfg.geofence.v.radius_km}

ExpGeofencePasses(seg, cfg) == ~cfg.geofence.some \/ ExpInside(seg, cfg) # {}

ExpLocated(seg) == {"startLocation", "endLocation"} \subseteq seg.keys

\* the segment gets as far as the date-range check / the country check / the geofence
ExpReachesDates(seg, cfg) == ExpTypePasses(seg, cfg) /\ ExpDatesParse(seg)
ExpReachesCountry(seg, cfg) == ExpReachesDates(seg, cfg) /\ ~ExpDateRejects(seg, cfg)
ExpReachesGeofence(seg, cfg) ==
    ExpReachesCountry(seg, cfg) /\ ~ExpCountryRejects(seg, cfg) /\ ExpLocated(seg)

ExpAccepts(seg, cfg) == ExpReachesGeofence(seg, cfg) /\ ExpGeofencePasses(seg, cfg)

ExcludingLine(line) == line.msg = "Excluding segment with address"

----------------------------------------------------------------------------
(* Claims *)

\* C1: for an accepted segment whose routing request returns a status other
\* than 200, snap_to_road returns None, no feature is appended, the run does
\* not abort and control returns to the loop over the entries with the
\* remaining entries and files untouched.
C1_FailedStatusSkipsSegment ==
    [][ /\ (pc = "await" /\ response'.some /\ response'.v.status_code # HttpOk)
            => (~snapped_route'.some /\ pc' = "accumulate" /\ features' = features)
        /\ (pc = "accumulate" /\ response.v.status_code # HttpOk)
            => /\ features' = features
               /\ pc' = "entries"
               /\ <<remaining, files_left, entries_left>>' = <<remaining, files_left, entries_left>>
               /\ printed' = << [msg |-> "Failed to snap route", arg |-> 0] >>
      ]_vars

\* C1 witness: the segment after one whose request failed with a 500 is being
\* filtered, and no feature was appended for the failed one.
C1_Witness ==
    /\ pc = "filter"
    /\ response.some /\ response.v.status_code = HttpError
    /\ response.v.json.routes # <<>>
    /\ requests_sent = 1 /\ features = <<>>

\* C2 (as claimed): a 200 response with an empty routes list never aborts
\* the run.
C2_EmptyRoutesRecoverable ==
    (/\ snapped_route.some
     /\ "routes" \in snapped_route.v.keys
     /\ snapped_route.v.routes = <<>>) => pc # "aborted"

\* C3: the output path is written at most once, only when every file and
\* entry has been processed, and never in a run that aborted.
C3_OutputWrittenOnceAtEnd ==
    /\ writes <= 1
    /\ output.some <=> writes = 1
    /\ writes = 1 => (pc = "done" /\ files_left = 0 /\ remaining = 0)
    /\ pc = "aborted" => (writes = 0 /\ ~output.some)

\* C3 witness: a run aborted after a feature had been accumulated, and
\* nothing was written.
C3_Witness == pc = "aborted" /\ Len(features) >= 1 /\ writes = 0 /\ ~output.some

ExpSnapped(resp) ==
    /\ resp.status_code = HttpOk
    /\ "routes" \in resp.json.keys
    /\ Len(resp.json.routes) >= 1

ExpFeature(seg, resp, cfg) ==
    [geometry   |-> [type |-> "LineString",
                     coordinates |-> Head(resp.json.routes).geometry.coordinates],
     properties |-> [activityType |-> ExpType(seg),
                     stroke_width |-> cfg.stroke_width,
                     stroke_color |-> cfg.stroke_color]]

\* C4: the feature list changes only by appending, at the end of the list,
\* the feature of an accepted segment whose request succeeded with at least
\* one route: its coordinates are the first route's, its activityType the
\* segment's ("UNKNOWN" when absent); what is written is that list.
C4_FeaturesAreSnappedSegments ==
    /\ [](pc = "done" => output.v.features = features)
    /\ [][ IF pc = "accumulate" /\ ExpSnapped(response.v)
           THEN /\ ExpAccepts(Seg, config)
                /\ features' = Append(features, ExpFeature(Seg, response.v, config))
           ELSE features' = features
         ]_vars

\* C4 witness: a completed run wrote two features, in processing order, one
\* of a segment without activity type.
C4_Witness ==
    /\ pc = "done"
    /\ Len(output.v.features) = 2
    /\ output.v.features[1].properties.activityType = "UNKNOWN"
    /\ output.v.features[1].geometry.coordinates = RouteA.geometry.coordinates
    /\ output.v.features[2].properties.activityType = "IN_PASSENGER_VEHICLE"
    /\ output.v.features[2].geometry.coordinates = RouteB.geometry.coordinates
    /\ requests_sent = 3

\* C5: one request per accepted segment and none otherwise; a request is in
\* flight only while snap_to_road waits for it, and the next entry is taken
\* up only when no request is in flight; no request is repeated.
C5_OneRequestPerAcceptedSegment ==
    /\ [](/\ requests_sent = routes_started - (IF pc = "snap" THEN 1 ELSE 0)
          /\ request.some <=> pc = "await")
    /\ [][ /\ requests_sent' # requests_sent
              => (pc = "snap" /\ requests_sent' = requests_sent + 1 /\ request'.some)
           /\ routes_started' # routes_started
              => (pc = "filter" /\ ExpAccepts(Seg, config)
                  /\ routes_started' = routes_started + 1)
           /\ (pc = "filter" /\ ExpAccepts(Seg, config)) => pc' = "snap"
           /\ pc = "snap" => pc' = "await"
           /\ pc = "await" => (pc' = "accumulate" /\ ~request'.some)
           /\ pc' = "filter" => (pc = "entries" /\ ~request.some)
         ]_vars

\* C5 witness: a completed run that read MaxEntries timeline entries, of
\* which exactly one was an accepted segment: exactly one request was sent.
C5_Witness ==
    /\ pc = "done"
    /\ entries_left = 0
    /\ requests_sent = 1
    /\ routes_started = 1

\* the `;`-separated entries of a coordinate list
RECURSIVE SplitEntries(_)
SplitEntries(tokens) ==
    LET cuts == {i \in 1..Len(tokens) : tokens[i].k = ";"}
    IN  IF cuts = {} THEN <<tokens>>
        ELSE LET first == CHOOSE i \in cuts : \A j \in cuts : i <= j
             IN  <<SubSeq(tokens, 1, first - 1)>>
                 \o SplitEntries(SubSeq(tokens, first + 1, Len(tokens)))

ExpCoordinates(data) ==
    << <<data.start_lat, data.start_lon>> >> \o data.waypoints
    \o << <<data.end_lat, data.end_lon>> >>

\* C6 (as claimed): the coordinate list of a request has n + 2 entries for a
\* segment with n waypoints, start first and end last, each entry `lon,lat`.
C6_CoordinateListWellFormed ==
    request.some =>
        LET parts == SplitEntries(request.v.coords)
            points == ExpCoordinates(segment_data.v)
        IN  /\ Len(parts) = Len(segment_data.v.waypoints) + 2
            /\ \A i \in 1..Len(parts) : parts[i] # <<>>
            /\ Len(parts) = Len(points)
               => \A i \in 1..Len(parts) :
                     parts[i] = <<Num(points[i][2]), Sep(","), Num(points[i][1])>>

Rejected == pc' = "entries" /\ segment_data' = None /\ features' = features

\* C7: the country check rejects exactly the segments that reach it with an
\* exclusion list, transit stops and a stop whose non-empty address contains,
\* case-insensitively, an alias of an excluded country (or its lowercased
\* name when no group lists it); it then prints the address of such a stop,
\* and no other outcome of the filter prints an exclusion line.
C7_CountryExclusion ==
    [][ pc = "filter" =>
          /\ (ExpReachesCountry(Seg, config) /\ ExpCountryRejects(Seg, config))
                => /\ Rejected
                   /\ Len(printed') = 1
                   /\ ExcludingLine(printed'[1])
                   /\ \E i \in ExpMatchingStops(Seg, config) :
                         printed'[1].arg = Seg.transitPath.transitStops[i].address
          /\ ~(ExpReachesCountry(Seg, config) /\ ExpCountryRejects(Seg, config))
                => \A i \in 1..Len(printed') : ~ExcludingLine(printed'[i])
          /\ (ExpReachesGeofence(Seg, config) /\ ExpGeofencePasses(Seg, config))
                => pc' = "snap"
      ]_vars

\* C7 witness: a segment was rejected for a stop at "Campus", whose address
\* contains the alias "us", after a stop that matched nothing.
C7_Witness ==
    /\ pc = "entries"
    /\ segment_data = None
    /\ printed = << [msg |-> "Excluding segment with address", arg |-> AddrCampus] >>
    /\ Len(Seg.transitPath.transitStops) = 2
    /\ Seg.transitPath.transitStops[1] = Stop(AddrNorway)

\* C8: a segment that reaches the date-range check is rejected there exactly
\* when a from bound is set and its start is strictly before it, or a to
\* bound is set and its end is strictly after it.
C8_DateRange ==
    [][ (pc = "filter" /\ ExpReachesDates(Seg, config)) =>
          /\ ExpDateRejects(Seg, config) => (Rejected /\ printed' = <<>>)
          /\ (/\ ~ExpDateRejects(Seg, config)
              /\ ~ExpCountryRejects(Seg, config)
              /\ ExpLocated(Seg)
              /\ ExpGeofencePasses(Seg, config)) => pc' = "snap"
      ]_vars

\* C8 witness: a segment whose start equals from and whose end equals to was
\* accepted.
C8_Witness ==
    /\ pc = "snap"
    /\ config.from_date.some /\ config.to_date.some
    /\ ExpMicros(Seg.duration.startTimestamp) = config.from_date.v
    /\ ExpMicros(Seg.duration.endTimestamp) = config.to_date.v

C10_CheckOrder ==
    [][ pc = "filter" =>
          /\ ~ExpTypePasses(Seg, config) => (Rejected /\ printed' = <<>>)
          /\ (ExpTypePasses(Seg, config) /\ ExpMalformed(Seg)) => pc' = "aborted"
          /\ (ExpReachesDates(Seg, config) /\ ExpDateRejects(Seg, config))
                => (Rejected /\ printed' = <<>>)
          /\ (ExpReachesCountry(Seg, config) /\ ExpCountryRejects(Seg, config))
                => (Rejected /\ printed' # <<>>)
          /\ (ExpReachesGeofence(Seg, config) /\ ~ExpGeofencePasses(Seg, config))
                => (Rejected /\ printed' = <<>>)
      ]_vars

\* C10 witness: a segment with a malformed timestamp and an excluded address
\* was skipped by the allow-list, without abort and without exclusion line.
C10_Witness ==
    /\ pc = "entries"
    /\ printed = <<>>
    /\ ~ExpTypePasses(Seg, config)
    /\ ExpMalformed(Seg)
    /\ ExpCountryRejects(Seg, config)

\* C10 witness, second half: with no date range configured, a segment that
\* passed the allow-list was aborted on by its malformed timestamp.
C10_WitnessAbort ==
    /\ pc = "aborted"
    /\ ExpTypePasses(Seg, config)
    /\ ExpMalformed(Seg)
    /\ ~config.from_date.some /\ ~config.to_date.some

====
